---- MODULE Spec2Model ----
(***************************************************************************)
(* Model of etoolbox.utils.remote_zip: a seekable stream (_RemoteIO) over  *)
(* windows (_PartialBuffer) fetched by byte range (_RemoteFetcher) from a  *)
(* remote zip archive, and the member-size map RemoteZip builds from the   *)
(* archive's index.                                                        *)
(*                                                                         *)
(* Bytes are identified by where they lie in the remote resource: a piece  *)
(* of content is [src, len], the bytes R[src .. src+len-1].                *)
(***************************************************************************)
EXTENDS Integers, Sequences, FiniteSets, TLC

\* ------------------------------------------------------------------ bounds
\* Number of _PartialBuffer objects one session may create.
MaxBuffers == 3
\* Number of failing responses the network may give in one session.
MaxFaults == 1
\* How far before the start and beyond the end of the resource a seek may aim.
MaxBeyond == 1
\* Number of calls (seek, read, close) made on the stream in one session.
MaxCalls == 6
\* Largest resource size and suffix length of the fetcher-only specification.
MaxSize == 6
MaxSuffix == 8

\* ------------------------------------------------------- program constants
\* RemoteZip.__init__'s default initial_buffer_size, 64 * 1024.
DefaultInitialBufferSize == 65536

\* ---------------------------------------------------------------- helpers
Max(a, b) == IF a >= b THEN a ELSE b
Min(a, b) == IF a <= b THEN a ELSE b

\* Python's None for an integer attribute (sizes and map keys are >= 0).
NoInt == -1
\* Python's None for self.buffer.
NoBuffer == [none |-> TRUE]
\* Python's None for self._member_position_to_size.
NoMap == [set |-> FALSE]

\* A character of a Range / Content-Range header that is not a number.
DASH == -1
SLASH == -2

\* ------------------------------------------------------------ the archive
\* A remote archive: the members' header offsets in index order, the offset
\* of the index (start_dir) and the size of the whole resource.
Archive(infolist, start_dir, size) ==
    [infolist |-> infolist, start_dir |-> start_dir, size |-> size]

\* A session: RemoteZip(url, initial_buffer_size, support_suffix_range=...)
\* opened on an archive.
Session(a, initial_buffer_size, support_suffix_range) ==
    [archive |-> a, initial_buffer_size |-> initial_buffer_size,
     support_suffix_range |-> support_suffix_range]

Sessions ==
    { Session(Archive(<<3, 0, 5>>, 8, 11), 2, TRUE),
      Session(Archive(<<3, 0, 5>>, 8, 11), DefaultInitialBufferSize, FALSE),
      Session(Archive(<<4, 2>>, 7, 9), 2, FALSE),
      Session(Archive(<<>>, 0, 4), DefaultInitialBufferSize, TRUE) }

\* ------------------------------------------------------------- the server
\* What the network does with one request: "ok" (the server answers as RFC
\* 7233 says), "conn" (the connection fails: requests raises ConnectionError),
\* "status" (a failing status: raise_for_status raises HTTPError), "nocr"
\* (the answer carries no Content-Range), "nolen" (no Content-Length).
NetOutcomes == {"ok", "conn", "status", "nocr", "nolen"}

\* A decimal number as header characters: its sign, then its digits.
Num(n) == IF n < 0 THEN <<DASH, 0 - n>> ELSE <<n>>

\* The answer of a server holding S bytes to a GET with the Range header
\* `range`: 206 with the range served (clamped to the resource), 416 for a
\* range it cannot satisfy, 200 with the whole body when it ignores a Range
\* header it cannot read.
ServerGet(S, range) ==
    LET full == [status |-> 200, cr |-> <<>>, lo |-> 0, hi |-> S - 1]
        bad == [status |-> 416, cr |-> <<>>, lo |-> 0, hi |-> 0 - 1]
        part(lo, hi) == [status |-> 206, lo |-> lo, hi |-> hi,
                         cr |-> Num(lo) \o <<DASH>> \o Num(hi) \o <<SLASH>> \o Num(S)]
    IN  IF Len(range) = 2 /\ range[1] = DASH /\ range[2] >= 0
        THEN IF range[2] = 0 THEN bad ELSE part(Max(0, S - range[2]), S - 1)
        ELSE IF Len(range) = 2 /\ range[1] >= 0 /\ range[2] = DASH
        THEN IF range[1] >= S THEN bad ELSE part(range[1], S - 1)
        ELSE IF Len(range) = 3 /\ range[1] >= 0 /\ range[2] = DASH /\ range[3] >= 0
        THEN IF range[3] < range[1] THEN full
             ELSE IF range[1] >= S THEN bad
             ELSE part(range[1], Min(range[3], S - 1))
        ELSE full

\* ------------------------------------------------------- _RemoteFetcher
\* A byte range (min, max); open: max is None.
Range(min, max) == [min |-> min, max |-> max, open |-> FALSE]
OpenRange(min) == [min |-> min, max |-> 0, open |-> TRUE]

\* build_range_header leaving the upper end of an explicit range out.
build_range_header_open(r) ==
    IF r.min < 0 THEN Num(r.min) ELSE Num(r.min) \o <<DASH>>

build_range_header(r) ==
    IF r.open
    THEN IF r.min < 0 THEN Num(r.min) ELSE Num(r.min) \o <<DASH>>
    ELSE Num(r.min) \o <<DASH>> \o Num(r.max)

\* The characters of `h` before the first SLASH: split("/")[0].
RECURSIVE BeforeSlash(_)
BeforeSlash(h) ==
    IF h = <<>> \/ Head(h) = SLASH THEN <<>> ELSE <<Head(h)>> \o BeforeSlash(Tail(h))

\* int(s): the integer the characters `s` spell, or a ValueError.
IsInt(s) == \/ Len(s) = 1 /\ s[1] >= 0
            \/ Len(s) = 2 /\ s[1] = DASH /\ s[2] >= 0
IntOf(s) == IF Len(s) = 1 THEN s[1] ELSE 0 - s[2]

\* The positions of the dashes of `s`: where split("-") cuts.
Dashes(s) == {i \in 1..Len(s) : s[i] = DASH}

parse_range_header(content_range_header) ==
    LET range_to_parse == BeforeSlash(content_range_header)
        bad == [exc |-> "ValueError", min |-> 0, max |-> 0, open |-> FALSE]
    IN  IF range_to_parse # <<>> /\ Head(range_to_parse) = DASH
        THEN IF IsInt(range_to_parse)
             THEN [exc |-> "none", min |-> IntOf(range_to_parse), max |-> 0, open |-> TRUE]
             ELSE bad
        ELSE IF Cardinality(Dashes(range_to_parse)) # 1 THEN bad
        ELSE LET d == CHOOSE i \in Dashes(range_to_parse) : TRUE
                 range_min == SubSeq(range_to_parse, 1, d - 1)
                 range_max == SubSeq(range_to_parse, d + 1, Len(range_to_parse))
             IN  IF ~IsInt(range_min) THEN bad
                 ELSE IF range_max = <<>>
                 THEN [exc |-> "none", min |-> IntOf(range_min), max |-> 0, open |-> TRUE]
                 ELSE IF ~IsInt(range_max) THEN bad
                 ELSE [exc |-> "none", min |-> IntOf(range_min),
                       max |-> IntOf(range_max), open |-> FALSE]

\* _request taking an answer without Content-Range for the whole resource.
request_full_file(S, range_header, net) ==
    LET res == ServerGet(S, range_header)
        fail(e) == [exc |-> e, cr |-> <<>>, lo |-> 0, hi |-> 0 - 1]
    IN  IF net = "conn" THEN fail("ConnectionError")
        ELSE IF net = "status" \/ res.status = 416 THEN fail("HTTPError")
        ELSE IF net = "nocr" \/ res.cr = <<>>
        THEN [exc |-> "none", cr |-> Num(0) \o <<DASH>> \o Num(S - 1) \o <<SLASH>> \o Num(S),
              lo |-> 0, hi |-> S - 1]
        ELSE [exc |-> "none", cr |-> res.cr, lo |-> res.lo, hi |-> res.hi]

\* _request: the GET, raise_for_status, and the Content-Range check.
request(S, range_header, net) ==
    LET res == ServerGet(S, range_header)
        fail(e) == [exc |-> e, cr |-> <<>>, lo |-> 0, hi |-> 0 - 1]
    IN  IF net = "conn" THEN fail("ConnectionError")
        ELSE IF net = "status" \/ res.status = 416 THEN fail("HTTPError")
        ELSE IF net = "nocr" \/ res.cr = <<>>
        THEN fail("RangeNotSupportedError")
        ELSE [exc |-> "none", cr |-> res.cr, lo |-> res.lo, hi |-> res.hi]

\* get_file_size: the HEAD request is made outside the try block.
get_file_size(S, net) ==
    IF net = "conn" THEN [exc |-> "ConnectionError", size |-> 0]
    ELSE IF net = "status" THEN [exc |-> "RemoteIOError", size |-> 0]
    ELSE IF net = "nolen" THEN [exc |-> "RemoteZipError", size |-> 0]
    ELSE [exc |-> "none", size |-> S]

\* _PartialBuffer.__init__: the window [offset, offset+size) over the body
\* R[lo .. lo+blen-1]; cursor is the underlying buffer's tell().
PartialBuffer(id, lo, blen, offset, size, stream) ==
    [id |-> id, offset |-> offset, size |-> size, position |-> offset,
     stream |-> stream, cursor |-> 0, lo |-> lo, blen |-> blen, closed |-> FALSE]

\* An OSError of the transport, as fetch's except clause sees it.
IsOSError(e) == e \in {"ConnectionError", "HTTPError"}

\* rewrite_suffix_range without the max(0, ...).
rewrite_suffix_range_unclamped(data_range, size) ==
    Range(size + data_range.min, size - 1)

\* The range fetch requests: a suffix range is rewritten to an explicit one
\* when the server is declared not to support suffix ranges.
rewrite_suffix_range(data_range, size) ==
    Range(Max(0, size + data_range.min), size - 1)

\* The tail of fetch: the window built from the answer `res` and the range
\* `parsed` from its Content-Range, or the exception raised.
fetch_result(res, parsed, events, stream, id) ==
    IF IsOSError(res.exc) THEN [exc |-> "RemoteIOError", buf |-> NoBuffer, events |-> events]
    ELSE IF res.exc # "none" THEN [exc |-> res.exc, buf |-> NoBuffer, events |-> events]
    ELSE IF parsed.exc # "none" THEN [exc |-> parsed.exc, buf |-> NoBuffer, events |-> events]
    ELSE IF parsed.open THEN [exc |-> "TypeError", buf |-> NoBuffer, events |-> events]
    ELSE [exc |-> "none", events |-> events,
          buf |-> PartialBuffer(id, res.lo, res.hi - res.lo + 1, parsed.min,
                                parsed.max - parsed.min + 1, stream)]

\* The try block of fetch: the request for `rng` and the window built.
fetch_range(S, rng, events, stream, id, res) ==
    fetch_result(res, parse_range_header(res.cr),
                 Append(events, [e |-> "get", range |-> rng, stream |-> stream]),
                 stream, id)

\* fetch(data_range, stream=...) against a resource of S bytes. `id` names
\* the buffer it creates. headnet, net: what the network does with the HEAD
\* and the GET. Its result: the exception raised ("none": buf is returned),
\* and the requests sent.
fetch_sized(S, data_range, stream, id, head, net) ==
    IF head.exc # "none"
    THEN [exc |-> head.exc, buf |-> NoBuffer,
          events |-> <<[e |-> "head", range |-> data_range, stream |-> FALSE]>>]
    ELSE fetch_range(S, rewrite_suffix_range(data_range, head.size),
                     <<[e |-> "head", range |-> data_range, stream |-> FALSE]>>, stream, id,
                     request(S, build_range_header(
                                    rewrite_suffix_range(data_range, head.size)), net))

fetch(S, support_suffix_range, data_range, stream, id, headnet, net) ==
    IF data_range.min < 0 /\ data_range.open /\ ~support_suffix_range
    THEN fetch_sized(S, data_range, stream, id, get_file_size(S, headnet), net)
    ELSE fetch_range(S, data_range, <<>>, stream, id,
                     request(S, build_range_header(data_range), net))

\* ------------------------------------------------------- _PartialBuffer
\* A piece of content: the bytes R[src .. src+len-1] of the resource.
Content(src, len) == [src |-> src, len |-> len]
NoContent == Content(0, 0)

\* What reading a closed urllib3 stream that was not read to its end does:
\* urllib3 1.x returns b"", urllib3 2.x raises (enforce_content_length).
LibOutcomes == {"empty", "raise"}

\* self.buffer.read(size) on the underlying io.BytesIO (stream = FALSE) or
\* urllib3 response (stream = TRUE): the number of bytes it returns, from the
\* cursor on. A negative size reads all that is left; a closed BytesIO raises
\* ValueError, a closed response returns nothing.
buffer_read(b, size, lib) ==
    LET avail == Max(0, b.blen - b.cursor)
    IN  IF b.closed
        THEN IF ~b.stream THEN [exc |-> "ValueError", k |-> 0]
             ELSE IF lib = "raise" /\ size > 0 /\ avail > 0
             THEN [exc |-> "ProtocolError", k |-> 0]
             ELSE [exc |-> "none", k |-> 0]
        ELSE [exc |-> "none", k |-> IF size < 0 THEN avail ELSE Min(size, avail)]

PartialBuffer_read(b, size0, lib) ==
    LET size == IF size0 = 0 THEN b.offset + b.size - b.position ELSE size0
        r == buffer_read(b, size, lib)
    IN  IF r.exc # "none" THEN [exc |-> r.exc, b |-> b, content |-> NoContent]
        ELSE [exc |-> "none",
              b |-> [b EXCEPT !.cursor = b.cursor + r.k,
                              !.position = b.offset + b.cursor + r.k],
              content |-> Content(b.lo + b.cursor, r.k)]

\* close() releasing the underlying buffer whether or not it is closed.
PartialBuffer_close_again(b) == [b |-> [b EXCEPT !.closed = TRUE], n |-> 1]

\* close(): the underlying buffer is closed (and its connection released)
\* unless it is closed already. n: the number of releases this call makes.
PartialBuffer_close(b) ==
    IF ~b.closed THEN [b |-> [b EXCEPT !.closed = TRUE], n |-> 1]
    ELSE [b |-> b, n |-> 0]

PartialBuffer_tell(b) == b.position

\* The position seek(offset, whence) computes, before it checks it.
seek_target(b, offset, whence) ==
    IF whence = 2 THEN b.size + b.offset + offset
    ELSE IF whence = 0 THEN offset
    ELSE b.position + offset

\* seek without the check of the target against the window.
PartialBuffer_seek_unchecked(b, offset, whence, lib) ==
    LET moved == [b EXCEPT !.position = seek_target(b, offset, whence)]
        relative_position == moved.position - b.offset
        skip_bytes == relative_position - b.cursor
        skipped == buffer_read(b, skip_bytes, lib)
    IN  IF b.stream
        THEN IF relative_position < b.cursor
             THEN [exc |-> "OutOfBoundError", b |-> moved]
             ELSE IF skip_bytes = 0 THEN [exc |-> "none", b |-> moved]
             ELSE IF skipped.exc # "none" THEN [exc |-> skipped.exc, b |-> moved]
             ELSE [exc |-> "none", b |-> [moved EXCEPT !.cursor = b.cursor + skipped.k]]
        ELSE IF b.closed THEN [exc |-> "ValueError", b |-> moved]
             ELSE [exc |-> "none", b |-> [moved EXCEPT !.cursor = relative_position]]

PartialBuffer_seek(b, offset, whence, lib) ==
    LET moved == [b EXCEPT !.position = seek_target(b, offset, whence)]
        relative_position == moved.position - b.offset
        skip_bytes == relative_position - b.cursor
        skipped == buffer_read(b, skip_bytes, lib)
    IN  IF relative_position < 0 \/ relative_position >= b.size
        THEN [exc |-> "OutOfBoundError", b |-> moved]
        ELSE IF b.stream
        THEN IF relative_position < b.cursor
             THEN [exc |-> "OutOfBoundError", b |-> moved]
             ELSE IF skip_bytes = 0 THEN [exc |-> "none", b |-> moved]
             ELSE IF skipped.exc # "none" THEN [exc |-> skipped.exc, b |-> moved]
             ELSE [exc |-> "none", b |-> [moved EXCEPT !.cursor = b.cursor + skipped.k]]
        ELSE IF b.closed THEN [exc |-> "ValueError", b |-> moved]
             ELSE [exc |-> "none", b |-> [moved EXCEPT !.cursor = relative_position]]

\* ------------------------------------------------------------- _RemoteIO
\* An event of a call: a buffer closed ("close"), a call of the fetch
\* function ("fetch"), a request sent by it ("head", "get").
CloseEvent(b) == [e |-> "close", range |-> Range(b.offset, b.offset + b.size - 1),
                  stream |-> b.stream]
FetchEvent(r, stream) == [e |-> "fetch", range |-> r, stream |-> stream]

\* `released` with the releases of buffer b by one close() added.
Release(released, b, n) == [released EXCEPT ![b.id] = @ + n]

\* The result of a call that raises e and leaves everything as it is.
Raise(self, released, e, events) ==
    [self |-> self, released |-> released, exc |-> e, content |-> NoContent,
     pos |-> 0, events |-> events]

\* member_fetch_size forgetting to record the member it fetches.
member_fetch_size_unrecorded(position_to_size, last_member_pos, position) ==
    IF position \in DOMAIN position_to_size
    THEN [exc |-> "none", fetch_size |-> position_to_size[position],
          last_member_pos |-> last_member_pos]
    ELSE IF last_member_pos # NoInt /\ last_member_pos # 0 /\ last_member_pos < position
    THEN [exc |-> "none", last_member_pos |-> last_member_pos,
          fetch_size |-> position_to_size[last_member_pos] - (position - last_member_pos)]
    ELSE [exc |-> "OutOfBoundError", fetch_size |-> 0, last_member_pos |-> last_member_pos]

\* How read sizes an unresolved read in optimized mode: the size of the fetch
\* and the last member start, or OutOfBoundError.
member_fetch_size(position_to_size, last_member_pos, position) ==
    IF position \in DOMAIN position_to_size
    THEN [exc |-> "none", fetch_size |-> position_to_size[position],
          last_member_pos |-> position]
    ELSE IF last_member_pos # NoInt /\ last_member_pos # 0 /\ last_member_pos < position
    THEN [exc |-> "none", last_member_pos |-> last_member_pos,
          fetch_size |-> position_to_size[last_member_pos] - (position - last_member_pos)]
    ELSE [exc |-> "OutOfBoundError", fetch_size |-> 0, last_member_pos |-> last_member_pos]

\* The end of the replacement: the buffer fetch returned is installed, or
\* the closed old buffer stays when fetch raised.
install_buffer(self, released, closed, f, r, stream) ==
    [exc |-> f.exc,
     events |-> (IF closed.n > 0 THEN <<CloseEvent(self.buffer)>> ELSE <<>>)
                \o <<FetchEvent(r, stream)>> \o f.events,
     released |-> IF f.exc # "none" THEN Release(released, self.buffer, closed.n)
                  ELSE Append(Release(released, self.buffer, closed.n), 0),
     self |-> IF f.exc # "none"
              THEN [self EXCEPT !.seek_succeeded = TRUE, !.buffer = closed.b]
              ELSE [self EXCEPT !.seek_succeeded = TRUE, !.buffer = f.buf]]

\* replace_buffer fetching the new buffer without closing the old one.
replace_buffer_leaking(self, released, S, support, r, stream, nets) ==
    install_buffer(self, released, [b |-> self.buffer, n |-> 0],
                   fetch(S, support, r, stream, Len(released) + 1, nets[1], nets[2]),
                   r, stream)

\* The buffer read fetches to replace the current one: _seek_succeeded is
\* set, the old buffer is closed, then fetch is called.
replace_buffer(self, released, S, support, r, stream, nets) ==
    install_buffer(self, released, PartialBuffer_close(self.buffer),
                   fetch(S, support, r, stream, Len(released) + 1, nets[1], nets[2]),
                   r, stream)

\* next_fetch keeping the request-sized fetch after the map is installed.
next_fetch_unoptimized(self, position, size) ==
    [exc |-> "none", fetch_size |-> size, last_member_pos |-> self.last_member_pos]

\* The size and the mode of the fetch of an unresolved read of `size` bytes.
next_fetch(self, position, size) ==
    IF self.member_position_to_size = NoMap
    THEN [exc |-> "none", fetch_size |-> size, last_member_pos |-> self.last_member_pos]
    ELSE member_fetch_size(self.member_position_to_size.map, self.last_member_pos,
                           position)

\* resolve fetching again although the stream is resolved.
resolve_always(self, released, position, m, S, support, nets) ==
    IF m.exc # "none"
    THEN [exc |-> m.exc, events |-> <<>>, released |-> released, self |-> self]
    ELSE replace_buffer([self EXCEPT !.last_member_pos = m.last_member_pos], released,
                        S, support, Range(position, position + m.fetch_size - 1),
                        self.member_position_to_size # NoMap, nets)

\* The "if not self._seek_succeeded" block of read, given its fetch size m.
resolve(self, released, position, m, S, support, nets) ==
    IF self.seek_succeeded
    THEN [exc |-> "none", events |-> <<>>, released |-> released, self |-> self]
    ELSE IF m.exc # "none"
    THEN [exc |-> m.exc, events |-> <<>>, released |-> released, self |-> self]
    ELSE replace_buffer([self EXCEPT !.last_member_pos = m.last_member_pos], released,
                        S, support, Range(position, position + m.fetch_size - 1),
                        self.member_position_to_size # NoMap, nets)

\* The result of read: what self.buffer.read(size) returned (r) after the
\* stream was resolved (f).
read_result(f, r) ==
    IF r.exc # "none" THEN Raise(f.self, f.released, r.exc, f.events)
    ELSE [self |-> [f.self EXCEPT !.buffer = r.b], released |-> f.released,
          exc |-> "none", content |-> r.content, pos |-> 0, events |-> f.events]

read_buffer(f, size, lib) ==
    IF f.exc # "none" THEN Raise(f.self, f.released, f.exc, f.events)
    ELSE read_result(f, PartialBuffer_read(f.self.buffer, size, lib))

read_sized(self, released, position, size, S, support, nets, lib) ==
    read_buffer(resolve(self, released, position, next_fetch(self, position, size),
                        S, support, nets),
                size, lib)

RemoteIO_read(self, released, size0, S, support, nets, lib) ==
    IF self.buffer = NoBuffer THEN Raise(self, released, "AttributeError", <<>>)
    ELSE read_sized(self, released, PartialBuffer_tell(self.buffer),
                    IF size0 = 0 THEN self.file_size - PartialBuffer_tell(self.buffer)
                    ELSE size0,
                    S, support, nets, lib)

\* install_tail taking the length of the window for the resource's size.
install_tail_length_only(self, released, f, r) ==
    IF f.exc # "none"
    THEN [exc |-> f.exc, events |-> <<FetchEvent(r, FALSE)>> \o f.events,
          released |-> released, self |-> self]
    ELSE [exc |-> "none", events |-> <<FetchEvent(r, FALSE)>> \o f.events,
          released |-> Append(released, 0),
          self |-> [self EXCEPT !.buffer = f.buf, !.file_size = f.buf.size]]

\* The first end-relative seek: the tail of the resource is fetched and the
\* resource's size is taken from the window returned.
install_tail(self, released, f, r) ==
    IF f.exc # "none"
    THEN [exc |-> f.exc, events |-> <<FetchEvent(r, FALSE)>> \o f.events,
          released |-> released, self |-> self]
    ELSE [exc |-> "none", events |-> <<FetchEvent(r, FALSE)>> \o f.events,
          released |-> Append(released, 0),
          self |-> [self EXCEPT !.buffer = f.buf,
                                !.file_size = f.buf.size + PartialBuffer_tell(f.buf)]]

tail_fetch(self, released, S, support, initial_buffer_size, nets) ==
    install_tail(self, released,
                 fetch(S, support, OpenRange(0 - initial_buffer_size), FALSE,
                       Len(released) + 1, nets[1], nets[2]),
                 OpenRange(0 - initial_buffer_size))

\* The try block of seek: r is what self.buffer.seek(offset, whence) did.
seek_result(f, r) ==
    IF r.exc = "none"
    THEN [self |-> [f.self EXCEPT !.buffer = r.b, !.seek_succeeded = TRUE],
          released |-> f.released, exc |-> "none", content |-> NoContent,
          pos |-> r.b.position, events |-> f.events]
    ELSE IF r.exc = "OutOfBoundError"
    THEN [self |-> [f.self EXCEPT !.buffer = r.b, !.seek_succeeded = FALSE],
          released |-> f.released, exc |-> "none", content |-> NoContent,
          pos |-> PartialBuffer_tell(r.b), events |-> f.events]
    ELSE Raise([f.self EXCEPT !.buffer = r.b], f.released, r.exc, f.events)

seek_buffer(f, offset, whence, lib) ==
    IF f.exc # "none" THEN Raise(f.self, f.released, f.exc, f.events)
    ELSE IF f.self.buffer = NoBuffer
    THEN Raise(f.self, f.released, "AttributeError", f.events)
    ELSE seek_result(f, PartialBuffer_seek(f.self.buffer, offset, whence, lib))

RemoteIO_seek(self, released, offset, whence, S, support, initial_buffer_size, nets, lib) ==
    seek_buffer(IF whence = 2 /\ self.file_size = NoInt
                THEN tail_fetch(self, released, S, support, initial_buffer_size, nets)
                ELSE [exc |-> "none", events |-> <<>>, released |-> released,
                      self |-> self],
                offset, whence, lib)

RemoteIO_tell(self) == PartialBuffer_tell(self.buffer)

RemoteIO_close(self, released) ==
    IF self.buffer = NoBuffer \/ self.buffer.size = 0
    THEN Raise(self, released, "none", <<>>)
    ELSE LET closed == PartialBuffer_close(self.buffer)
         IN  [self |-> [self EXCEPT !.buffer = NoBuffer],
              released |-> Release(released, self.buffer, closed.n),
              exc |-> "none", content |-> NoContent, pos |-> 0,
              events |-> IF closed.n > 0 THEN <<CloseEvent(self.buffer)>> ELSE <<>>]

set_position_to_size(self, position_to_size) ==
    [self EXCEPT !.member_position_to_size = [set |-> TRUE, map |-> position_to_size]]

\* --------------------------------------------------------------- RemoteZip
\* The header offsets left in index order.
Unsorted(s) == s

\* list.sort() on distinct integers.
RECURSIVE Sorted(_)
Sorted(s) ==
    IF s = <<>> THEN <<>>
    ELSE LET i == CHOOSE i \in 1..Len(s) : \A j \in 1..Len(s) : s[i] <= s[j]
         IN  <<s[i]>> \o Sorted(SubSeq(s, 1, i - 1) \o SubSeq(s, i + 1, Len(s)))

\* _pairwise: the pairs of neighbours of a sequence.
pairwise(s) == [i \in 1..(Len(s) - 1) |-> <<s[i], s[i + 1]>>]

\* _get_position_to_size without the index's offset appended.
get_position_to_size_members_only(infolist, start_dir) ==
    IF Len(infolist) = 0 THEN <<>>
    ELSE LET pairs == pairwise(Sorted(infolist))
         IN  [a \in {pairs[i][1] : i \in DOMAIN pairs} |->
                LET i == CHOOSE i \in DOMAIN pairs : pairs[i][1] = a
                IN  pairs[i][2] - pairs[i][1]]

\* _get_position_to_size: {a: b - a} over the pairs of the sorted header
\* offsets with start_dir appended; {} for an archive without members.
get_position_to_size(infolist, start_dir) ==
    IF Len(infolist) = 0 THEN <<>>
    ELSE LET ilist == Append(Sorted(infolist), start_dir)
             pairs == pairwise(ilist)
         IN  [a \in {pairs[i][1] : i \in DOMAIN pairs} |->
                LET i == CHOOSE i \in DOMAIN pairs :
                           /\ pairs[i][1] = a
                           /\ \A j \in DOMAIN pairs : pairs[j][1] = a => j <= i
                IN  pairs[i][2] - pairs[i][1]]

\* ------------------------------------------------------------ the session
VARIABLES
    archive,                  \* the remote archive (never changes)
    initial_buffer_size,      \* _RemoteIO._initial_buffer_size
    support_suffix_range,     \* _RemoteFetcher._support_suffix_range
    buffer,                   \* _RemoteIO.buffer
    file_size,                \* _RemoteIO._file_size
    seek_succeeded,           \* _RemoteIO._seek_succeeded
    member_position_to_size,  \* _RemoteIO._member_position_to_size
    last_member_pos,          \* _RemoteIO._last_member_pos
    released,                 \* per buffer created, how often it was released
    faults,                   \* failing responses the network has given
    ncalls,                   \* calls made on the stream
    fetcher,                  \* the last direct call of _RemoteFetcher.fetch
    call,                     \* the last call: its arguments, the state before
                              \* it, its result and the events it caused
    member_read               \* the sequential read of a member in progress

vars == <<archive, initial_buffer_size, support_suffix_range, buffer, file_size,
          seek_succeeded, member_position_to_size, last_member_pos, released,
          faults, ncalls, fetcher, call, member_read>>

\* The _RemoteIO object.
Self ==
    [buffer |-> buffer, file_size |-> file_size, seek_succeeded |-> seek_succeeded,
     member_position_to_size |-> member_position_to_size,
     last_member_pos |-> last_member_pos]

\* _RemoteIO.__init__
NewRemoteIO ==
    [buffer |-> NoBuffer, file_size |-> NoInt, seek_succeeded |-> FALSE,
     member_position_to_size |-> NoMap, last_member_pos |-> NoInt]

\* No direct call of fetch was made.
NoFetch ==
    [called |-> FALSE, range |-> Range(0, 0), stream |-> FALSE, nets |-> <<"ok", "ok">>,
     result |-> [exc |-> "none", buf |-> NoBuffer, events |-> <<>>]]

NoCall ==
    [op |-> "init", offset |-> 0, whence |-> 0, size |-> 0, before |-> NewRemoteIO,
     nets |-> <<"ok", "ok">>, exc |-> "none", content |-> NoContent, pos |-> 0,
     events |-> <<>>]

\* No sequential read of a member is in progress.
NoMemberRead == [start |-> NoInt, resolved |-> FALSE, fetches |-> 0]

\* The sequential read of a member after a call with result r: a seek that
\* returns a member's start begins one (resolved: the seek landed inside the
\* current window); a read of size > 0 that stays within the member's known
\* size continues it and adds the fetches it issued; any other call ends it.
NextMemberRead(self, cur, op, size, r) ==
    IF self.member_position_to_size = NoMap \/ self.buffer = NoBuffer THEN NoMemberRead
    ELSE IF op = "seek"
    THEN IF r.exc = "none" /\ r.pos \in DOMAIN self.member_position_to_size.map
         THEN [start |-> r.pos, resolved |-> r.self.seek_succeeded, fetches |-> 0]
         ELSE NoMemberRead
    ELSE IF /\ op = "read"
            /\ cur.start # NoInt
            /\ size > 0
            /\ PartialBuffer_tell(self.buffer) >= cur.start
            /\ PartialBuffer_tell(self.buffer) + size
                 <= cur.start + self.member_position_to_size.map[cur.start]
    THEN [cur EXCEPT !.fetches = @ + Cardinality({i \in DOMAIN r.events :
                                                   r.events[i].e = "fetch"})]
    ELSE NoMemberRead

\* The state RemoteZip.__init__ starts ZipFile.__init__ in: a fresh _RemoteIO.
Fresh ==
    /\ buffer = NoBuffer
    /\ file_size = NoInt
    /\ seek_succeeded = FALSE
    /\ member_position_to_size = NoMap
    /\ last_member_pos = NoInt
    /\ released = <<>>
    /\ faults = 0
    /\ ncalls = 0
    /\ fetcher = NoFetch
    /\ call = NoCall
    /\ member_read = NoMemberRead

Init ==
    /\ \E s \in Sessions :
         /\ archive = s.archive
         /\ initial_buffer_size = s.initial_buffer_size
         /\ support_suffix_range = s.support_suffix_range
    /\ Fresh

\* The inputs of the calls: what the network does with the HEAD and with the
\* GET of one fetch (when the call fetches), what the library does with a
\* read of a closed stream (when there is one), and the seeks and the read
\* sizes the parser asks for.
NetPairs(fetches) ==
    IF fetches /\ faults < MaxFaults
    THEN {<<"ok", "ok">>}
         \cup {<<h, "ok">> : h \in IF support_suffix_range THEN {}
                                   ELSE {"conn", "status", "nolen"}}
         \cup {<<"ok", g>> : g \in {"conn", "status", "nocr"}}
    ELSE {<<"ok", "ok">>}

LibChoices ==
    IF buffer # NoBuffer /\ buffer.closed /\ buffer.stream THEN LibOutcomes
    ELSE {"empty"}

MemberStarts == {archive.infolist[i] : i \in DOMAIN archive.infolist}

SeekOffsets(whence) ==
    IF whence = 0
    THEN MemberStarts \cup {s + 1 : s \in MemberStarts}
         \cup {archive.start_dir, archive.size - 1}
    ELSE IF whence = 1 THEN {0 - 1, 2}
    ELSE {0, 0 - 2, archive.start_dir - archive.size}

ReadSizes == {0, 2}

\* The failing responses among those the requests of `events` got.
Faults(events, nets) ==
    Cardinality({i \in DOMAIN events :
                   \/ events[i].e = "head" /\ nets[1] # "ok"
                   \/ events[i].e = "get" /\ nets[2] # "ok"})

\* The state after a call with result r.
Finish(op, offset, whence, size, nets, r) ==
    /\ Len(r.released) <= MaxBuffers
    /\ ncalls' = IF op = "set_position_to_size" THEN ncalls ELSE ncalls + 1
    /\ ncalls' <= MaxCalls
    /\ r.self.buffer # NoBuffer =>
         /\ r.self.buffer.position >= 0 - MaxBeyond
         /\ r.self.buffer.position <= archive.size + MaxBeyond
    /\ faults + Faults(r.events, nets) <= MaxFaults
    /\ faults' = faults + Faults(r.events, nets)
    /\ buffer' = r.self.buffer
    /\ file_size' = r.self.file_size
    /\ seek_succeeded' = r.self.seek_succeeded
    /\ member_position_to_size' = r.self.member_position_to_size
    /\ last_member_pos' = r.self.last_member_pos
    /\ released' = r.released
    /\ call' = [op |-> op, offset |-> offset, whence |-> whence, size |-> size,
                before |-> Self, nets |-> nets, exc |-> r.exc, content |-> r.content,
                pos |-> r.pos, events |-> r.events]
    /\ member_read' = NextMemberRead(Self, member_read, op, size, r)
    /\ UNCHANGED <<archive, initial_buffer_size, support_suffix_range, fetcher>>

Seek ==
    \E whence \in {0, 1, 2} : \E offset \in SeekOffsets(whence) :
    \E nets \in NetPairs(whence = 2 /\ file_size = NoInt) : \E lib \in LibChoices :
        Finish("seek", offset, whence, 0, nets,
               RemoteIO_seek(Self, released, offset, whence, archive.size,
                             support_suffix_range, initial_buffer_size, nets, lib))

Read ==
    \E size \in ReadSizes : \E nets \in NetPairs(~seek_succeeded) :
    \E lib \in LibChoices :
        Finish("read", 0, 0, size, nets,
               RemoteIO_read(Self, released, size, archive.size,
                             support_suffix_range, nets, lib))

\* RemoteZip.__init__ installs the map once ZipFile.__init__ has read the index.
SetPositionToSize ==
    /\ member_position_to_size = NoMap
    /\ buffer # NoBuffer
    /\ Finish("set_position_to_size", 0, 0, 0, <<"ok", "ok">>,
              Raise(set_position_to_size(Self,
                        get_position_to_size(archive.infolist, archive.start_dir)),
                    released, "none", <<>>))

Close ==
    Finish("close", 0, 0, 0, <<"ok", "ok">>, RemoteIO_close(Self, released))

Next == Seek \/ Read \/ SetPositionToSize \/ Close

Spec == Init /\ [][Next]_vars

\* ------------------------------------------- RemoteZip as ZipFile uses it
\* The archives of the specification below: every order of up to MaxMembers
\* distinct header offsets up to MaxOffset, the index one or two bytes after
\* the last member and a two-byte trailer, and the archive of the example
\* (members at 0, 120, 340, index at 600).
MaxOffset == 3
MaxMembers == 3
\* Number of calls ZipFile makes on the stream in the specification below.
MaxZipCalls == 4

ExampleArchive == Archive(<<120, 0, 340>>, 600, 640)

\* The sequences of length n of distinct elements of S.
RECURSIVE Orders(_, _)
Orders(S, n) ==
    IF n = 0 THEN {<<>>}
    ELSE UNION {{Append(l, x) : x \in S \ {l[i] : i \in DOMAIN l}} : l \in Orders(S, n - 1)}

SetMax(S) == CHOOSE x \in S : \A y \in S : y <= x
SetMin(S) == CHOOSE x \in S : \A y \in S : x <= y

ZipArchives ==
    {ExampleArchive, Archive(<<>>, 0, 2)}
    \cup UNION {{Archive(l, SetMax({l[i] : i \in DOMAIN l}) + gap,
                         SetMax({l[i] : i \in DOMAIN l}) + gap + 2) : gap \in {1, 2}}
                : l \in UNION {Orders(0..MaxOffset, n) : n \in 1..MaxMembers}}

InitZip ==
    /\ archive \in ZipArchives
    /\ initial_buffer_size \in {2, DefaultInitialBufferSize}
    /\ support_suffix_range = TRUE
    /\ Fresh

\* ZipFile.__init__ looks for the end of the archive: seek(0, 2).
OpenIndex ==
    /\ file_size = NoInt
    /\ ncalls < MaxZipCalls
    /\ Finish("seek", 0, 2, 0, <<"ok", "ok">>,
              RemoteIO_seek(Self, released, 0, 2, archive.size, support_suffix_range,
                            initial_buffer_size, <<"ok", "ok">>, "empty"))

\* ZipFile.open(member) seeks to the member's header.
SeekMember ==
    /\ file_size # NoInt
    /\ ncalls < MaxZipCalls
    /\ \E offset \in MemberStarts \cup {archive.start_dir} :
         Finish("seek", offset, 0, 0, <<"ok", "ok">>,
                RemoteIO_seek(Self, released, offset, 0, archive.size,
                              support_suffix_range, initial_buffer_size,
                              <<"ok", "ok">>, "empty"))

\* The member is read: a piece of it or the rest of it.
ReadMember ==
    /\ file_size # NoInt
    /\ ncalls < MaxZipCalls
    /\ \E size \in ReadSizes :
         Finish("read", 0, 0, size, <<"ok", "ok">>,
                RemoteIO_read(Self, released, size, archive.size, support_suffix_range,
                              <<"ok", "ok">>, "empty"))

NextZip == OpenIndex \/ SetPositionToSize \/ SeekMember \/ ReadMember

SpecZip == InitZip /\ [][NextZip]_vars

\* ------------------------------------------------ the fetcher on its own
\* The ranges of the direct calls: suffix ranges, explicit ranges and open
\* ranges over resources of up to MaxSize bytes.
FetchRanges ==
    {OpenRange(0 - n) : n \in 1..MaxSuffix}
    \cup {Range(a, b) : a \in 0..MaxSize, b \in 0..MaxSize}
    \cup {OpenRange(a) : a \in 0..MaxSize}

InitFetch ==
    /\ archive \in {Archive(<<>>, 0, size) : size \in 1..MaxSize}
    /\ initial_buffer_size = DefaultInitialBufferSize
    /\ support_suffix_range \in BOOLEAN
    /\ Fresh

\* One call fetch(data_range, stream=stream).
Fetch ==
    \E data_range \in FetchRanges : \E stream \in BOOLEAN :
    \E nets \in {<<h, g>> : h \in {"ok", "conn", "status", "nolen"},
                            g \in {"ok", "conn", "status", "nocr"}} :
        /\ ~fetcher.called
        /\ fetcher' = [called |-> TRUE, range |-> data_range, stream |-> stream,
                       nets |-> nets,
                       result |-> fetch(archive.size, support_suffix_range, data_range,
                                        stream, 1, nets[1], nets[2])]
        /\ UNCHANGED <<archive, initial_buffer_size, support_suffix_range, buffer,
                       file_size, seek_succeeded, member_position_to_size,
                       last_member_pos, released, faults, ncalls, call, member_read>>

NextFetch == Fetch

SpecFetch == InitFetch /\ [][NextFetch]_vars

\* ------------------------------------------------- a window on its own
\* One _PartialBuffer, fetched for an explicit range of a resource of
\* MaxResource bytes, and the calls made on it directly.
MaxResource == 4

InitBuffer ==
    /\ archive = Archive(<<>>, 0, MaxResource)
    /\ initial_buffer_size = DefaultInitialBufferSize
    /\ support_suffix_range = TRUE
    /\ Fresh

\* The result of a call on the buffer that leaves it as b.
BufferResult(b, rel, e, content, pos, events) ==
    [self |-> [Self EXCEPT !.buffer = b], released |-> rel, exc |-> e,
     content |-> content, pos |-> pos, events |-> events]

\* fetch((a, b), stream=stream) creates the buffer.
BufferOpen ==
    /\ buffer = NoBuffer
    /\ released = <<>>
    /\ \E a \in 0..(MaxResource - 1) : \E b \in a..(MaxResource - 1) :
       \E stream \in BOOLEAN :
         LET f == fetch(archive.size, support_suffix_range, Range(a, b), stream, 1,
                        "ok", "ok")
         IN  /\ f.exc = "none"
             /\ Finish("fetch", a, 0, b - a + 1, <<"ok", "ok">>,
                       BufferResult(f.buf, <<0>>, "none", NoContent, 0, f.events))

BufferReadSizes == {0, 1, 2}

BufferSeekOffsets(whence) ==
    IF whence = 0 THEN 0..MaxResource
    ELSE IF whence = 1 THEN {0 - 1, 1, 2}
    ELSE {0 - 2, 0 - 1, 0}

BufferRead ==
    /\ buffer # NoBuffer
    /\ \E size \in BufferReadSizes : \E lib \in LibChoices :
         LET r == PartialBuffer_read(buffer, size, lib)
         IN  Finish("buffer_read", 0, 0, size, <<"ok", "ok">>,
                    BufferResult(r.b, released, r.exc, r.content, 0, <<>>))

BufferSeek ==
    /\ buffer # NoBuffer
    /\ \E whence \in {0, 1, 2} : \E offset \in BufferSeekOffsets(whence) :
       \E lib \in LibChoices :
         LET r == PartialBuffer_seek(buffer, offset, whence, lib)
         IN  Finish("buffer_seek", offset, whence, 0, <<"ok", "ok">>,
                    BufferResult(r.b, released, r.exc, NoContent, r.b.position, <<>>))

BufferClose ==
    /\ buffer # NoBuffer
    /\ LET c == PartialBuffer_close(buffer)
       IN  Finish("buffer_close", 0, 0, 0, <<"ok", "ok">>,
                  BufferResult(c.b, Release(released, buffer, c.n), "none", NoContent, 0,
                               IF c.n > 0 THEN <<CloseEvent(buffer)>> ELSE <<>>))

NextBuffer == BufferOpen \/ BufferRead \/ BufferSeek \/ BufferClose

SpecBuffer == InitBuffer /\ [][NextBuffer]_vars

\* ------------------------------------------------------------ properties
\* The stream before the last call, and what the call was.
Before == call.before
HadBuffer == Before.buffer # NoBuffer
Position0 == Before.buffer.position
Optimized0 == Before.member_position_to_size # NoMap
Map0 == Before.member_position_to_size.map
Last0 == Before.last_member_pos

\* The last call was a read that found the stream unresolved.
UnresolvedRead == call.op = "read" /\ HadBuffer /\ ~Before.seek_succeeded

\* The calls of the fetch function the last call made.
FetchEvents == SelectSeq(call.events, LAMBDA ev : ev.e = "fetch")

\* The position lies strictly inside the window of the last member fetched.
InLastMember(p) ==
    /\ Last0 # NoInt
    /\ Last0 \in DOMAIN Map0
    /\ Last0 < p
    /\ p < Last0 + Map0[Last0]

\* C1: every read that returns successfully at stream position p returns
\* exactly the bytes R[p .. p+k-1] for the k bytes it returns, and tell()
\* afterwards equals p+k.
C1_ReadReturnsResourceBytes ==
    (call.op = "read" /\ call.exc = "none") =>
        /\ call.content.len > 0 => call.content.src = Position0
        /\ RemoteIO_tell(Self) = Position0 + call.content.len

\* C2: a seek whose target lies outside the current window never raises: it
\* marks the stream unresolved and returns the target, which tell() then
\* reports; OutOfBound surfaces only from a read, and only when no recovery
\* path (bootstrap fetch, map hit, continuation inside the last member) applies.
C2_SeekDefersOutOfBound ==
    /\ ( /\ call.op = "seek"
         /\ HadBuffer
         /\ LET target == seek_target(Before.buffer, call.offset, call.whence)
            IN  \/ target < Before.buffer.offset
                \/ target >= Before.buffer.offset + Before.buffer.size )
       => /\ call.exc = "none"
          /\ ~seek_succeeded
          /\ call.pos = seek_target(Before.buffer, call.offset, call.whence)
          /\ RemoteIO_tell(Self) = call.pos
    /\ call.exc = "OutOfBoundError"
       => /\ UnresolvedRead
          /\ Optimized0
          /\ Position0 \notin DOMAIN Map0
          /\ ~InLastMember(Position0)

\* C3: in optimized mode an unresolved read at a position that is no key of
\* the map and not inside the window [s, s+map[s]) of the last member fetched
\* fails with OutOfBound and issues no fetch.
C3_MissOutsideLastMemberRaises ==
    ( /\ UnresolvedRead
      /\ Optimized0
      /\ Position0 \notin DOMAIN Map0
      /\ ~InLastMember(Position0) )
    => /\ call.exc = "OutOfBoundError"
       /\ call.events = <<>>

\* C4: in optimized mode an unresolved read at a position p that is no key of
\* the map but strictly inside the window of the last member fetched (start
\* s) is served by a fetch of the rest of that member, (p, s+map[s]-1), for
\* every member start s, 0 included.
C4_ContinuationFetchesRemainder ==
    ( /\ UnresolvedRead
      /\ Optimized0
      /\ Position0 \notin DOMAIN Map0
      /\ InLastMember(Position0) )
    => FetchEvents = <<FetchEvent(Range(Position0, Last0 + Map0[Last0] - 1), TRUE)>>

\* C5: in optimized mode an unresolved read at a position p that is a key of
\* the map issues exactly one streaming fetch for (p, p+map[p]-1), whatever
\* size the read asked for and whichever member was fetched last, and records
\* p as the last member start.
C5_MapHitFetchesMember ==
    (UnresolvedRead /\ Optimized0 /\ Position0 \in DOMAIN Map0)
    => /\ FetchEvents = <<FetchEvent(Range(Position0, Position0 + Map0[Position0] - 1), TRUE)>>
       /\ last_member_pos = Position0

\* A read of another size than the member's hit the map while another member
\* was the last one fetched.
C5_Witness ==
    /\ UnresolvedRead /\ Optimized0 /\ Position0 \in DOMAIN Map0
    /\ call.exc = "none"
    /\ call.size # Map0[Position0]
    /\ Last0 # NoInt /\ Last0 # Position0
    /\ buffer.stream

\* C6: before the map is installed an unresolved read of n bytes at p issues
\* exactly one buffered fetch for (p, p+n-1), n being file_size - p for
\* read(0); once the map is installed every fetch of any call is a streaming
\* fetch from p to the end of a member of the map.
C6_BootstrapThenOptimizedFetches ==
    /\ (UnresolvedRead /\ ~Optimized0)
       => FetchEvents =
            <<FetchEvent(Range(Position0,
                               Position0 + (IF call.size = 0
                                            THEN Before.file_size - Position0
                                            ELSE call.size) - 1), FALSE)>>
    /\ Optimized0
       => \A i \in DOMAIN FetchEvents :
            /\ FetchEvents[i].stream
            /\ FetchEvents[i].range.min = Position0
            /\ ~FetchEvents[i].range.open
            /\ \E s \in DOMAIN Map0 : FetchEvents[i].range.max = s + Map0[s] - 1

\* A streaming fetch replaced a window that a bootstrap read had fetched.
C6_Witness ==
    /\ UnresolvedRead /\ Optimized0
    /\ Before.buffer.id = 2 /\ ~Before.buffer.stream
    /\ Len(FetchEvents) = 1
    /\ call.exc = "none"
    /\ buffer.stream

\* C7: at most one buffer is open at any time: every buffer but the current
\* one has been closed, exactly once, so after N replacements exactly N prior
\* buffers are closed; and in a call that replaces the buffer the old buffer
\* is closed before fetch is called.
C7_OneOpenBuffer ==
    /\ Cardinality({id \in DOMAIN released : released[id] = 0}) <= 1
    /\ \A id \in DOMAIN released :
         (buffer = NoBuffer \/ id # buffer.id) => released[id] = 1
    /\ buffer # NoBuffer =>
         /\ buffer.id = Len(released)
         /\ Cardinality({id \in DOMAIN released : id # buffer.id /\ released[id] = 1})
              = Len(released) - 1
    /\ \A i \in DOMAIN call.events :
         (call.events[i].e = "fetch" /\ HadBuffer)
         => \/ Before.buffer.closed
            \/ \E j \in 1..(i - 1) : call.events[j].e = "close"

\* The buffer was replaced twice: two buffers closed, the third one open.
C7_Witness ==
    /\ released = <<1, 1, 0>>
    /\ buffer # NoBuffer /\ buffer.id = 3
    /\ \E i \in DOMAIN call.events : call.events[i].e = "close"

\* The map the spec describes: each member start mapped to the distance to
\* the next larger offset among the member starts and the index's offset.
MemberSizeMap(a) ==
    LET starts == {a.infolist[i] : i \in DOMAIN a.infolist}
    IN  [o \in starts |-> SetMin({x \in starts \cup {a.start_dir} : x > o}) - o]

\* C8: the map installed equals the map of consecutive differences of the
\* sorted member starts and the index's offset; for the members 0, 120, 340
\* and the index at 600 it is {0: 120, 120: 220, 340: 260}.
C8_MapIsConsecutiveDeltas ==
    member_position_to_size # NoMap =>
        /\ member_position_to_size.map = MemberSizeMap(archive)
        /\ archive = ExampleArchive =>
             /\ DOMAIN member_position_to_size.map = {0, 120, 340}
             /\ member_position_to_size.map[0] = 120
             /\ member_position_to_size.map[120] = 220
             /\ member_position_to_size.map[340] = 260

\* The map of the example archive is installed.
C8_Witness ==
    /\ archive = ExampleArchive
    /\ member_position_to_size # NoMap
    /\ call.op = "set_position_to_size"

RECURSIVE SumOver(_, _)
SumOver(f, S) ==
    IF S = {} THEN 0
    ELSE LET x == CHOOSE x \in S : TRUE IN f[x] + SumOver(f, S \ {x})

\* C9: the values of the map installed plus the smallest member start add up
\* to the index's offset, and no later call changes the map.
C9_MapSumsToIndexAndIsFrozen ==
    /\ [](member_position_to_size # NoMap /\ archive.infolist # <<>>
          => SumOver(member_position_to_size.map, DOMAIN member_position_to_size.map)
             + SetMin({archive.infolist[i] : i \in DOMAIN archive.infolist})
             = archive.start_dir)
    /\ [][member_position_to_size # NoMap
          => member_position_to_size' = member_position_to_size]_vars

\* A member was fetched by a read after the map of an archive of three
\* members, the first not at offset 0, was installed.
C9_Witness ==
    /\ member_position_to_size # NoMap
    /\ Len(archive.infolist) = 3
    /\ 0 \notin DOMAIN member_position_to_size.map
    /\ UnresolvedRead /\ Optimized0
    /\ Len(FetchEvents) = 1
    /\ call.exc = "none"

\* C10: fetch((-N, None)) on a fetcher whose server is declared not to
\* support suffix ranges returns the window (offset, size, bytes) that the
\* same fetch returns on a fetcher that sends the suffix range, N >= S
\* included.
C10_SuffixFallbackEquivalent ==
    ( /\ fetcher.called
      /\ fetcher.range.open /\ fetcher.range.min < 0
      /\ ~support_suffix_range
      /\ fetcher.nets = <<"ok", "ok">> )
    => /\ fetcher.result.exc = "none"
       /\ fetcher.result.buf =
            fetch(archive.size, TRUE, fetcher.range, fetcher.stream, 1, "ok", "ok").buf

\* The fallback served a suffix longer than the resource.
C10_Witness ==
    /\ fetcher.called
    /\ fetcher.range.open /\ fetcher.range.min < 0
    /\ 0 - fetcher.range.min > archive.size
    /\ ~support_suffix_range
    /\ fetcher.nets = <<"ok", "ok">>
    /\ fetcher.result.exc = "none"

\* The last call was a read that is part of a sequential read of a member.
MemberReadInProgress == call.op = "read" /\ member_read.start # NoInt

ValidExplicitFetch ==
    /\ fetcher.called
    /\ ~fetcher.range.open
    /\ 0 <= fetcher.range.min
    /\ fetcher.range.min <= fetcher.range.max
    /\ fetcher.range.max <= archive.size - 1
    /\ fetcher.nets[2] = "ok"

\* C11: for every valid explicit byte range (a, b) of the resource,
\* fetch((a, b)) returns a window of length b-a+1 whose offset and initial
\* position are a; the window of every buffer fetch returns is the range the
\* server reported as served.
C11_ExplicitRangeWindow ==
    /\ ValidExplicitFetch =>
         /\ fetcher.result.exc = "none"
         /\ fetcher.result.buf.size = fetcher.range.max - fetcher.range.min + 1
         /\ fetcher.result.buf.offset = fetcher.range.min
         /\ PartialBuffer_tell(fetcher.result.buf) = fetcher.range.min
         /\ fetcher.result.buf.stream = fetcher.stream
    /\ (fetcher.called /\ fetcher.result.exc = "none") =>
         /\ fetcher.result.buf.offset = fetcher.result.buf.lo
         /\ fetcher.result.buf.size = fetcher.result.buf.blen

\* A streaming fetch of a range strictly inside the resource, on a fetcher
\* declared not to support suffix ranges.
C11_Witness ==
    /\ ValidExplicitFetch
    /\ 0 < fetcher.range.min
    /\ fetcher.range.min < fetcher.range.max
    /\ fetcher.range.max < archive.size - 1
    /\ fetcher.stream
    /\ ~support_suffix_range
    /\ fetcher.result.exc = "none"

\* The requests the last direct call of fetch sent.
SentHead == \E i \in DOMAIN fetcher.result.events : fetcher.result.events[i].e = "head"
SentGets == {fetcher.result.events[i].range : i \in
               {j \in DOMAIN fetcher.result.events : fetcher.result.events[j].e = "get"}}

\* The exception types of the transport (requests, urllib3).
RawTransportErrors == {"ConnectionError", "HTTPError", "ProtocolError"}

\* C13: every transport failure (connection error or failing status) in a
\* ranged fetch or in the total-size query reaches the caller as
\* RemoteIOError, never as a raw transport exception.
C13_TransportFailuresWrapped ==
    fetcher.called =>
        /\ fetcher.result.exc \notin RawTransportErrors
        /\ (SentHead /\ fetcher.nets[1] \in {"conn", "status"})
             => fetcher.result.exc = "RemoteIOError"
        /\ (SentGets # {} /\ fetcher.nets[2] \in {"conn", "status"})
             => fetcher.result.exc = "RemoteIOError"

\* The GET of the last direct call of fetch was answered with a successful
\* status and no Content-Range.
GetWithoutContentRange ==
    \E r \in SentGets :
        /\ fetcher.nets[2] \in {"ok", "nocr"}
        /\ ServerGet(archive.size, build_range_header(r)).status # 416
        /\ \/ fetcher.nets[2] = "nocr"
           \/ ServerGet(archive.size, build_range_header(r)).cr = <<>>

\* C14: a ranged fetch whose response lacks Content-Range fails with
\* RangeNotSupportedError and yields no buffer, so every buffer fetch returns
\* holds the range the server reported and not a whole-resource body; a size
\* query whose response lacks Content-Length fails with RemoteZipError.
C14_MissingMetadataConditions ==
    fetcher.called =>
        /\ GetWithoutContentRange =>
             /\ fetcher.result.exc = "RangeNotSupportedError"
             /\ fetcher.result.buf = NoBuffer
        /\ (SentHead /\ fetcher.nets[1] = "nolen") =>
             /\ fetcher.result.exc = "RemoteZipError"
             /\ fetcher.result.buf = NoBuffer
             /\ SentGets = {}
        /\ fetcher.result.exc = "RangeNotSupportedError" => GetWithoutContentRange
        /\ fetcher.result.buf # NoBuffer =>
             /\ fetcher.result.exc = "none"
             /\ fetcher.result.buf.blen = fetcher.result.buf.size

\* A server that ignored an inverted range answered with the whole resource.
C14_Witness ==
    /\ fetcher.called
    /\ fetcher.nets = <<"ok", "ok">>
    /\ ~fetcher.range.open
    /\ fetcher.range.max < fetcher.range.min
    /\ GetWithoutContentRange
    /\ fetcher.result.exc = "RangeNotSupportedError"

\* The last call was a call on the buffer itself that returned.
BufferCallReturned ==
    call.op \in {"buffer_read", "buffer_seek"} /\ call.exc = "none"

\* The target of the last seek on the buffer lies outside its window.
SeekTargetOutside ==
    /\ call.op = "buffer_seek"
    /\ LET target == seek_target(Before.buffer, call.offset, call.whence)
       IN  \/ target < Before.buffer.offset
           \/ target >= Before.buffer.offset + Before.buffer.size

\* C15 (as stated): after each read or seek on a buffer that returns,
\* offset <= position < offset+size; a seek whose target is outside
\* [offset, offset+size) raises OutOfBound instead of clamping.
C15_PositionStrictlyInsideWindow ==
    /\ BufferCallReturned =>
         /\ buffer.offset <= PartialBuffer_tell(buffer)
         /\ PartialBuffer_tell(buffer) < buffer.offset + buffer.size
    /\ SeekTargetOutside => call.exc = "OutOfBoundError"

\* C15 (amended): after a seek that returns, offset <= position <
\* offset+size; after a read that returns, offset <= position <= offset+size
\* (a read to the end of the window leaves the position at offset+size); a
\* seek whose target is outside [offset, offset+size) raises OutOfBound
\* instead of clamping.
C15_PositionInsideWindow ==
    /\ BufferCallReturned =>
         /\ buffer.offset <= PartialBuffer_tell(buffer)
         /\ PartialBuffer_tell(buffer) <= buffer.offset + buffer.size
         /\ call.op = "buffer_seek" =>
               /\ PartialBuffer_tell(buffer) < buffer.offset + buffer.size
               /\ PartialBuffer_tell(buffer)
                    = seek_target(Before.buffer, call.offset, call.whence)
               /\ call.pos = PartialBuffer_tell(buffer)
    /\ SeekTargetOutside => call.exc = "OutOfBoundError"

\* A read returned after a seek beyond the window had raised.
C15_Witness ==
    /\ call.op = "buffer_read"
    /\ call.exc = "none"
    /\ Position0 > Before.buffer.offset + Before.buffer.size
    /\ Before.buffer.offset > 0
    /\ ~Before.buffer.closed

\* The last call was an end-relative seek, made after the tail was fetched,
\* that returned.
EndRelativeSeek ==
    /\ call.op = "seek"
    /\ call.whence = 2
    /\ HadBuffer
    /\ Before.file_size # NoInt
    /\ call.exc = "none"

\* C16: in every state after the first tail fetch, seek(offset, 2) returns
\* resource_size + offset, whichever window is installed, and tell() then
\* reports it.
C16_EndRelativeSeekIsResourceRelative ==
    EndRelativeSeek =>
        /\ call.pos = Before.file_size + call.offset
        /\ RemoteIO_tell(Self) = Before.file_size + call.offset

\* The last call was an end-relative seek on a stream that did not know the
\* resource's size.
FirstEndRelativeSeek ==
    call.op = "seek" /\ call.whence = 2 /\ Before.file_size = NoInt

\* C17: the first end-relative seek issues exactly one buffered suffix fetch
\* of initial_buffer_size bytes and sets the resource's size to the length
\* plus the offset of the window returned, which is the true size S, also
\* when S is smaller than the tail; the size never changes afterwards and no
\* later seek fetches.
C17_TailFetchSetsResourceSize ==
    /\ [](FirstEndRelativeSeek =>
            FetchEvents = <<FetchEvent(OpenRange(0 - initial_buffer_size), FALSE)>>)
    /\ []((FirstEndRelativeSeek /\ call.exc = "none") =>
            /\ file_size = buffer.size + buffer.offset
            /\ file_size = archive.size
            /\ ~buffer.stream)
    /\ []((call.op = "seek" /\ Before.file_size # NoInt) => FetchEvents = <<>>)
    /\ [][file_size # NoInt => file_size' = file_size]_vars

\* The tail of a resource smaller than the initial buffer size was fetched.
C17_Witness ==
    /\ FirstEndRelativeSeek
    /\ call.exc = "none"
    /\ initial_buffer_size > archive.size
    /\ file_size = archive.size
    /\ buffer.offset = 0

\* The last call was a read that found the stream at the end of the current
\* window and before the end of the resource.
ExhaustedRead ==
    /\ call.op = "read"
    /\ HadBuffer
    /\ Before.file_size # NoInt
    /\ Position0 = Before.buffer.offset + Before.buffer.size
    /\ Position0 < Before.file_size

\* C18: a read that finds the current window exhausted while the position is
\* below the resource's size fetches the next window itself (or raises); it
\* never returns empty data from the exhausted window.
C18_ExhaustedWindowIsRefetched ==
    (ExhaustedRead /\ call.exc = "none") =>
        /\ Len(FetchEvents) = 1
        /\ FetchEvents[1].range.min = Position0
        /\ call.content.len > 0
        /\ call.content.src = Position0

\* The target of the last seek, a seek on an open streaming window, lies
\* inside the window.
StreamSeekInWindow ==
    /\ call.op = "seek"
    /\ HadBuffer
    /\ Before.buffer.stream
    /\ ~Before.buffer.closed
    /\ seek_target(Before.buffer, call.offset, call.whence) >= Before.buffer.offset
    /\ seek_target(Before.buffer, call.offset, call.whence)
         < Before.buffer.offset + Before.buffer.size

\* The number of bytes of the window before the target of the last seek.
SeekRelativeTarget ==
    seek_target(Before.buffer, call.offset, call.whence) - Before.buffer.offset

\* The last call was a read on a stream left unresolved inside an open
\* streaming window, behind the bytes already consumed.
ReadBehindCursor ==
    /\ UnresolvedRead
    /\ Before.buffer.stream
    /\ ~Before.buffer.closed
    /\ Position0 >= Before.buffer.offset
    /\ Position0 - Before.buffer.offset < Before.buffer.cursor

\* C19: on a streaming window a seek to an in-window target behind the bytes
\* already consumed consumes nothing and leaves the stream unresolved at the
\* target; a seek to a target at or ahead of the cursor succeeds and consumes
\* exactly the bytes skipped; the read after a backward seek issues a new
\* fetch starting at the target.
C19_StreamCannotRewind ==
    /\ (StreamSeekInWindow /\ SeekRelativeTarget < Before.buffer.cursor) =>
          /\ call.exc = "none"
          /\ ~seek_succeeded
          /\ buffer.cursor = Before.buffer.cursor
          /\ RemoteIO_tell(Self) = seek_target(Before.buffer, call.offset, call.whence)
    /\ (StreamSeekInWindow /\ SeekRelativeTarget >= Before.buffer.cursor) =>
          /\ call.exc = "none"
          /\ seek_succeeded
          /\ buffer.cursor = SeekRelativeTarget
    /\ ReadBehindCursor =>
          /\ Len(FetchEvents) = 1
          /\ FetchEvents[1].range.min = Position0

\* The last call was a read whose fetch raised.
FailedFetchRead ==
    UnresolvedRead /\ FetchEvents # <<>> /\ call.exc # "none"

\* C20: every buffer is released at most once, and exactly once when it was
\* replaced, when the read that closed it failed to fetch its replacement,
\* or when the stream was closed; after close() the stream holds no buffer,
\* however often close() is called.
C20_ReleasedExactlyOnce ==
    /\ \A id \in DOMAIN released : released[id] <= 1
    /\ buffer # NoBuffer => released[buffer.id] = IF buffer.closed THEN 1 ELSE 0
    /\ \A id \in DOMAIN released : id < Len(released) => released[id] = 1
    /\ FailedFetchRead =>
         /\ buffer.id = Before.buffer.id
         /\ buffer.closed
         /\ released[buffer.id] = 1
    /\ call.op = "close" =>
         /\ buffer = NoBuffer
         /\ \A id \in DOMAIN released : released[id] = 1

\* close() was called on a stream whose buffer a failed fetch had left closed.
C20_Witness ==
    /\ call.op = "close"
    /\ HadBuffer
    /\ Before.buffer.closed
    /\ Before.buffer.stream
    /\ released[Before.buffer.id] = 1
    /\ buffer = NoBuffer

====
